---- MODULE Spec2Model ----
(***************************************************************************)
(* Payment-link lifecycle of app.py / db.py: one SQLite table of links,    *)
(* the Flask handlers that read and write it, and the auto-unlock timers.  *)
(* Every db.py call opens its own connection and commits on its own, so a  *)
(* handler is a sequence of atomic store calls; handlers run on request    *)
(* threads and timers on threading.Timer threads, with no mutual exclusion *)
(* between them.  Each action below is one such atomic step.               *)
(*                                                                         *)
(* Time is counted in ticks; expires_hours and PROCESSING_LOCK_SECONDS are *)
(* both expressed in ticks.  datetime.now() is read up to MaxTime; ticks   *)
(* go on after that for the timers, which count their interval down.       *)
(***************************************************************************)
EXTENDS Integers, Sequences, FiniteSets, TLC

\* ---------------------------------------------------------------- bounds
MaxLinks == 2
CoreLinks == 1
MaxThreads == 2
MaxTimers == 2
MaxTime == 2
MaxItems == 2

\* ------------------------------------------------------ program constants
\* int(os.getenv("PROCESSING_LOCK_SECONDS", "30")): env-driven, run here with 2
PROCESSING_LOCK_SECONDS == 2
\* str(uuid.uuid4())[:8]
UuidPrefixLen == 8
\* SKIP_HMAC_VALIDATION defaults to "false"
SKIP_HMAC_VALIDATION == FALSE
\* request.args.get("paymentId") is None
NoId == 0

\* ----------------------------------------------------------------- inputs
PaymentIds == 1..MaxLinks
ReqIds == {NoId} \cup PaymentIds
Threads == 1..MaxThreads
TimerSlots == 1..MaxTimers
Refs == {<<"R">>, <<"R", "_", "1">>}
Prices == {10}
Currencies == {"EUR"}
Countries == {"NL"}
ExpiresHours == {1}
HexDigits == {"a"}
Suffixes == {[i \in 1..UuidPrefixLen |-> c] : c \in HexDigits}
EventCodes == {"AUTHORISATION", "CAPTURE"}
SuccessVals == {"true", "false"}
\* the Hmac-Signature header: the computed value, another ASCII value, a value
\* with characters outside ASCII, or no header at all
Signatures == {"computed", "other", "non_ascii", ""}

VARIABLES payments, threads, timers, now, last, lockLeft

vars == <<payments, threads, timers, now, last, lockLeft>>

\* ------------------------------------------------------------ pure helpers
RECURSIVE SplitFrom(_, _, _)
\* str.split(sep): the pieces of s between occurrences of sep, cur being the
\* piece under construction
SplitFrom(s, sep, cur) ==
    IF s = <<>> THEN <<cur>>
    ELSE IF Head(s) = sep THEN <<cur>> \o SplitFrom(Tail(s), sep, <<>>)
    ELSE SplitFrom(Tail(s), sep, Append(cur, Head(s)))

Split(s, sep) == SplitFrom(s, sep, <<>>)

Contains(s, c) == \E i \in 1..Len(s) : s[i] = c

\* session_reference.split("_")[0] if "_" in session_reference else session_reference
OriginalReference(session_reference) ==
    IF Contains(session_reference, "_") THEN Split(session_reference, "_")[1]
    ELSE session_reference

\* f"{reference}_{str(uuid.uuid4())[:8]}"
SessionReference(reference, suffix) == reference \o <<"_">> \o suffix

\* str(x).lower() on the values a notification carries
StrLower(x) ==
    CASE x = "True" -> "true"
      [] x = "False" -> "false"
      [] OTHER -> x

IsSuccess(item) == StrLower(item.success) = "true"

\* int(float(price) * 100)
PriceMinor(price) == price * 100

\* ------------------------------------------------------------------ db.py
Stored == DOMAIN payments

StatusOf(db, id) == IF id \in DOMAIN db THEN db[id].status ELSE "none"

\* mutant: only the primary key is constrained
IntegrityError_IdOnly(db, id, reference) == id \in DOMAIN db

\* the INSERT violates PRIMARY KEY (id) or UNIQUE (reference)
IntegrityError(db, id, reference) ==
    id \in DOMAIN db \/ \E i \in DOMAIN db : db[i].reference = reference

CreatePaymentRecord(db, id, amount, currency, reference, country, expires_at) ==
    [i \in DOMAIN db \cup {id} |->
        IF i = id
        THEN [amount |-> amount, currency |-> currency, reference |-> reference,
              status |-> "pending", country |-> country, expires_at |-> expires_at]
        ELSE db[i]]

\* mutant: the UPDATE sets more than the status column
UpdateStatusById_Rewriting(db, id, new_status) ==
    [i \in DOMAIN db |->
        IF i = id THEN [db[i] EXCEPT !.status = new_status, !.amount = 0] ELSE db[i]]

\* UPDATE payments SET status = ? WHERE id = ?
UpdateStatusById(db, id, new_status) ==
    [i \in DOMAIN db |-> IF i = id THEN [db[i] EXCEPT !.status = new_status] ELSE db[i]]

\* mutant: the UPDATE has no WHERE clause
UpdateStatusByReference_AllRows(db, reference, new_status) ==
    [i \in DOMAIN db |-> [db[i] EXCEPT !.status = new_status]]

\* UPDATE payments SET status = ? WHERE reference = ?
UpdateStatusByReference(db, reference, new_status) ==
    [i \in DOMAIN db |->
        IF db[i].reference = reference THEN [db[i] EXCEPT !.status = new_status] ELSE db[i]]

\* the id of the row a reference names (reference is UNIQUE), NoId if none
IdOfReference(db, reference) ==
    IF \E i \in DOMAIN db : db[i].reference = reference
    THEN CHOOSE i \in DOMAIN db : db[i].reference = reference
    ELSE NoId

\* ------------------------------------------------------- threads and timers
Idle == [op |-> "idle", pc |-> "idle", id |-> NoId, status |-> "none", items |-> <<>>]

\* a handler that needs more than one step runs on the first free thread
HasFreeThread == \E t \in Threads : threads[t] = Idle

FreeThread == CHOOSE t \in Threads :
                  /\ threads[t] = Idle
                  /\ \A u \in Threads : threads[u] = Idle => t <= u

NoTimer == [pc |-> "none", id |-> NoId, left |-> 0, resolved |-> FALSE]

\* timers started or about to be started by a handler that has read 'pending'
TimersInUse ==
    Cardinality({k \in TimerSlots : timers[k].pc # "none"})
    + Cardinality({t \in Threads : threads[t].pc \in {"lock", "arm"}})

FreeSlot == CHOOSE k \in TimerSlots :
                /\ timers[k].pc = "none"
                /\ \A j \in TimerSlots : timers[j].pc = "none" => k <= j

\* history of the step taken last, and for each link in 'processing' what is
\* left of PROCESSING_LOCK_SECONDS since it entered that status
NoItem == [eventCode |-> "", success |-> "", merchantReference |-> <<>>]

\* the JSON body of a response, for the handlers that answer with jsonify
NoBody == [paymentId |-> NoId, reference |-> <<>>, status |-> "", error |-> ""]

LogBody(op, id, code, session, item, body) ==
    /\ last' = [op |-> op, id |-> id, old |-> StatusOf(payments, id),
                new |-> StatusOf(payments', id), code |-> code, session |-> session,
                item |-> item, body |-> body]
    /\ lockLeft' = [l \in PaymentIds |->
                      IF StatusOf(payments', l) = "processing"
                      THEN IF StatusOf(payments, l) = "processing" THEN lockLeft[l]
                           ELSE PROCESSING_LOCK_SECONDS
                      ELSE 0]

Log(op, id, code, session, item) == LogBody(op, id, code, session, item, NoBody)

Record(op, id, code) == Log(op, id, code, <<>>, NoItem)

Respond(op, id, code, body) == LogBody(op, id, code, <<>>, NoItem, body)

\* a webhook that resolves a link marks the timers still waiting for it
Resolve(tm, id) ==
    [k \in TimerSlots |->
        IF tm[k].pc = "armed" /\ tm[k].id = id /\ id # NoId
        THEN [tm[k] EXCEPT !.resolved = TRUE] ELSE tm[k]]

Init ==
    /\ payments = <<>>
    /\ threads = [t \in Threads |-> Idle]
    /\ timers = [k \in TimerSlots |-> NoTimer]
    /\ now = 0
    /\ last = [op |-> "init", id |-> NoId, old |-> "none", new |-> "none", code |-> 0,
               session |-> <<>>, item |-> NoItem, body |-> NoBody]
    /\ lockLeft = [l \in PaymentIds |-> 0]

\* ------------------------------------------------------------------ /admin
NewPaymentId == Cardinality(Stored) + 1

AdminCreate(price, currency, reference, country, expires_hours, capacity) ==
    LET payment_id == NewPaymentId
        expires_at == now + expires_hours
    IN  /\ IF IntegrityError(payments, payment_id, reference)
           THEN /\ payments' = payments
                /\ Record("admin", NoId, 400)
           ELSE /\ payment_id <= capacity
                /\ payments' = CreatePaymentRecord(payments, payment_id, PriceMinor(price),
                                                   currency, reference, country, expires_at)
                /\ Record("admin", payment_id, 200)
        /\ UNCHANGED <<threads, timers, now>>

\* --------------------------------------------------------------- /checkout
\* mutant: the in-flight check is missing
CheckoutDecision_NoProcessingCheck(status, time, expires_at) ==
    IF time > expires_at THEN "expired"
    ELSE IF status = "paid" THEN "paid"
    ELSE "session"

\* mutant: the link counts as expired from the instant expires_at on
CheckoutDecision_StrictExpiry(status, time, expires_at) ==
    IF time >= expires_at THEN "expired"
    ELSE IF status = "paid" THEN "paid"
    ELSE IF status = "processing" THEN "in_progress"
    ELSE "session"

\* what checkout_page does with the row it read
CheckoutDecision(status, time, expires_at) ==
    IF time > expires_at THEN "expired"
    ELSE IF status = "paid" THEN "paid"
    ELSE IF status = "processing" THEN "in_progress"
    ELSE "session"

\* get_payment_by_id and the checks on the row
CheckoutRead(payment_id) ==
    /\ payments' = payments
    /\ IF payment_id = NoId
       THEN /\ threads' = threads
            /\ Record("checkout", NoId, 400)
       ELSE IF payment_id \notin Stored
       THEN /\ threads' = threads
            /\ Record("checkout", NoId, 404)
       ELSE LET row == payments[payment_id]
                d == CheckoutDecision(row.status, now, row.expires_at)
            IN  IF d \in {"expired", "paid"}
                THEN /\ threads' = threads
                     /\ Record("checkout", payment_id, 403)
                ELSE IF d = "in_progress"
                THEN /\ threads' = threads
                     /\ Record("checkout", payment_id, 200)
                ELSE /\ HasFreeThread
                     /\ threads' = [threads EXCEPT ![FreeThread] =
                            [op |-> "checkout", pc |-> "session", id |-> payment_id,
                             status |-> row.status, items |-> <<>>]]
                     /\ Record("checkout_read", payment_id, 0)
    /\ UNCHANGED <<timers, now>>

\* mutant: the visit locks the link once its session is created
CheckoutSession_Locking(t, suffix, created) ==
    /\ threads[t].op = "checkout"
    /\ threads[t].pc = "session"
    /\ payments' = IF created THEN UpdateStatusById(payments, threads[t].id, "processing")
                   ELSE payments
    /\ threads' = [threads EXCEPT ![t] = Idle]
    /\ LET session_reference == SessionReference(payments[threads[t].id].reference, suffix)
       IN  IF created
           THEN Log("checkout_session", threads[t].id, 200, session_reference, NoItem)
           ELSE Record("checkout_session", threads[t].id, 500)
    /\ UNCHANGED <<timers, now>>

\* mutant: the visit locks the link before it calls the provider
CheckoutSession_LockFirst(t, suffix, created) ==
    /\ threads[t].op = "checkout"
    /\ threads[t].pc = "session"
    /\ payments' = UpdateStatusById(payments, threads[t].id, "processing")
    /\ threads' = [threads EXCEPT ![t] = Idle]
    /\ LET session_reference == SessionReference(payments[threads[t].id].reference, suffix)
       IN  IF created
           THEN Log("checkout_session", threads[t].id, 200, session_reference, NoItem)
           ELSE Record("checkout_session", threads[t].id, 500)
    /\ UNCHANGED <<timers, now>>

\* the session reference is minted and adyen.checkout.payments_api.sessions is
\* called: a session is created, or the call raises
CheckoutSession(t, suffix, created) ==
    /\ threads[t].op = "checkout"
    /\ threads[t].pc = "session"
    /\ payments' = payments
    /\ threads' = [threads EXCEPT ![t] = Idle]
    /\ LET session_reference == SessionReference(payments[threads[t].id].reference, suffix)
       IN  IF created
           THEN Log("checkout_session", threads[t].id, 200, session_reference, NoItem)
           ELSE Record("checkout_session", threads[t].id, 500)
    /\ UNCHANGED <<timers, now>>

\* ------------------------------------------------ /result, /mark-processing
\* mutant: the handlers lock whatever is not paid
LockWanted_NotPaid(status) == status # "paid"

\* the handlers lock the link when the status they read satisfies this
LockWanted(status) == status = "pending"

\* mutant: /mark-processing always reports 'processing'
NewStatus_AlwaysProcessing(status) == "processing"

\* new_status of mark_processing for the status it read
NewStatus(status) == IF LockWanted(status) THEN "processing" ELSE status

\* /mark-processing answers {"status": new_status}; /result renders one fixed
\* message whatever it did
LockResponse(op, status) ==
    IF op = "mark" THEN [NoBody EXCEPT !.status = NewStatus(status)] ELSE NoBody

ReadForLock(op, payment_id) ==
    /\ payments' = payments
    /\ IF payment_id = NoId
       THEN /\ threads' = threads
            /\ Record(op, NoId, 400)
       ELSE IF payment_id \notin Stored
       THEN /\ threads' = threads
            /\ Record(op, NoId, 404)
       ELSE IF LockWanted(payments[payment_id].status)
       THEN /\ HasFreeThread
            /\ TimersInUse < MaxTimers
            /\ threads' = [threads EXCEPT ![FreeThread] =
                   [op |-> op, pc |-> "lock", id |-> payment_id,
                    status |-> payments[payment_id].status, items |-> <<>>]]
            /\ Record(op \o "_read", payment_id, 0)
       ELSE /\ threads' = threads
            /\ Respond(op, payment_id, 200, LockResponse(op, payments[payment_id].status))
    /\ UNCHANGED <<timers, now>>

\* update_status_by_id(payment_id, "processing")
WriteProcessing(t, op) ==
    /\ threads[t].op = op
    /\ threads[t].pc = "lock"
    /\ payments' = UpdateStatusById(payments, threads[t].id, "processing")
    /\ threads' = [threads EXCEPT ![t].pc = "arm"]
    /\ Record(op \o "_lock", threads[t].id, 0)
    /\ UNCHANGED <<timers, now>>

\* mutant: the handler answers without scheduling the unlock
ArmTimer_Skipped(t, op) ==
    /\ threads[t].op = op
    /\ threads[t].pc = "arm"
    /\ payments' = payments
    /\ timers' = timers
    /\ threads' = [threads EXCEPT ![t] = Idle]
    /\ Respond(op, threads[t].id, 200, LockResponse(op, threads[t].status))
    /\ UNCHANGED now

\* schedule_processing_unlock(payment_id), then the response
ArmTimer(t, op) ==
    /\ threads[t].op = op
    /\ threads[t].pc = "arm"
    /\ payments' = payments
    /\ timers' = [timers EXCEPT ![FreeSlot] =
           [pc |-> "armed", id |-> threads[t].id,
            left |-> PROCESSING_LOCK_SECONDS, resolved |-> FALSE]]
    /\ threads' = [threads EXCEPT ![t] = Idle]
    /\ Respond(op, threads[t].id, 200, LockResponse(op, threads[t].status))
    /\ UNCHANGED now

ResultRead(payment_id) == ReadForLock("result", payment_id)

ResultLock(t) == WriteProcessing(t, "result")

ResultArm(t) == ArmTimer(t, "result")

MarkRead(payment_id) == ReadForLock("mark", payment_id)

MarkLock(t) == WriteProcessing(t, "mark")

MarkArm(t) == ArmTimer(t, "mark")

\* ----------------------------------------------------------------- /status
\* mutant: the status reported is not read from the store
StatusResponse_Stale(id, row) ==
    [paymentId |-> id, reference |-> row.reference, status |-> "pending", error |-> ""]

\* jsonify({"paymentId": id_, "reference": reference, "status": status})
StatusResponse(id, row) ==
    [paymentId |-> id, reference |-> row.reference, status |-> row.status, error |-> ""]

StatusApi(payment_id) ==
    /\ payments' = payments
    /\ IF payment_id = NoId
       THEN Respond("status", NoId, 400, [NoBody EXCEPT !.error = "paymentId is required"])
       ELSE IF payment_id \notin Stored
       THEN Respond("status", NoId, 404, [NoBody EXCEPT !.error = "not found"])
       ELSE Respond("status", payment_id, 200, StatusResponse(payment_id, payments[payment_id]))
    /\ UNCHANGED <<threads, timers, now>>

\* ------------------------------------------------------- auto-unlock timer
\* mutant: the timer finds nothing to unlock
UnlockWanted_Never(status) == status = "locked"

\* _unlock writes 'pending' when the status it read satisfies this
UnlockWanted(status) == status = "processing"

\* the timer goes off: get_payment_by_id and the check of the status
TimerRead(k) ==
    /\ timers[k].pc = "armed"
    /\ timers[k].left = 0
    /\ payments' = payments
    /\ IF timers[k].id \in Stored /\ UnlockWanted(payments[timers[k].id].status)
       THEN timers' = [timers EXCEPT ![k].pc = "write"]
       ELSE timers' = [timers EXCEPT ![k] = NoTimer]
    /\ Record("timer_read", timers[k].id, 0)
    /\ UNCHANGED <<threads, now>>

\* update_status_by_id(payment_id, "pending")
TimerWrite(k) ==
    /\ timers[k].pc = "write"
    /\ payments' = UpdateStatusById(payments, timers[k].id, "pending")
    /\ timers' = [timers EXCEPT ![k] = NoTimer]
    /\ Record("timer_write", timers[k].id, 0)
    /\ UNCHANGED <<threads, now>>

\* ---------------------------------------------------------------- /webhook
MerchantReferences == Refs \cup {SessionReference(r, s) : r \in Refs, s \in Suffixes}

Items == [eventCode : EventCodes, success : SuccessVals,
          merchantReference : MerchantReferences]

RECURSIVE SeqsUpTo(_, _)
SeqsUpTo(S, n) ==
    IF n = 0 THEN {<<>>}
    ELSE LET shorter == SeqsUpTo(S, n - 1)
         IN  shorter \cup {Append(q, x) : q \in shorter, x \in S}

\* hmac.compare_digest(computed, signature)
SignatureOk(signature) == signature = "computed"

\* hmac.compare_digest raises TypeError on a str with characters outside ASCII
CompareRaises(signature) == signature = "non_ascii"

\* The requests sent to /webhook with payloads of at most n items.  A request
\* whose signature does not verify is answered before its payload is parsed:
\* those carry the payloads that would do the most, successful authorisations.
WebhookRequests(n) ==
    {rq \in [signature : Signatures, items : SeqsUpTo(Items, n)] :
        \/ SignatureOk(rq.signature)
        \/ /\ rq.items # <<>>
           /\ \A i \in 1..Len(rq.items) :
                  rq.items[i].eventCode = "AUTHORISATION" /\ rq.items[i].success = "true"}

\* mutant: the event code is not looked at
NotificationStatus_AnyEvent(item) == IF IsSuccess(item) THEN "paid" ELSE "pending"

\* mutant: a failed authorisation stores nothing
NotificationStatus_FailureIgnored(item) ==
    IF item.eventCode = "AUTHORISATION" /\ IsSuccess(item) THEN "paid" ELSE "none"

\* the status a notification item stores, "none" when it stores nothing
NotificationStatus(item) ==
    IF item.eventCode = "AUTHORISATION"
    THEN IF IsSuccess(item) THEN "paid" ELSE "pending"
    ELSE "none"

\* one pass of the loop over notificationItems, by the thread's own position
\* or as the first pass of a request
ProcessItem(t, items, first) ==
    LET item == Head(items)
        original_reference == OriginalReference(item.merchantReference)
        new_status == NotificationStatus(item)
        hit == IF new_status = "none" THEN NoId
               ELSE IdOfReference(payments, original_reference)
    IN  /\ payments' = IF new_status = "none" THEN payments
                       ELSE UpdateStatusByReference(payments, original_reference, new_status)
        /\ timers' = Resolve(timers, hit)
        /\ IF Tail(items) = <<>>
           THEN /\ threads' = IF first THEN threads ELSE [threads EXCEPT ![t] = Idle]
                /\ Log("webhook_item", hit, 200, <<>>, item)
           ELSE /\ first => HasFreeThread
                /\ threads' = [threads EXCEPT ![IF first THEN FreeThread ELSE t] =
                       [op |-> "webhook", pc |-> "items", id |-> NoId, status |-> "none",
                        items |-> Tail(items)]]
                /\ Log("webhook_item", hit, 0, <<>>, item)

\* the signature check, json.loads and the first pass of the loop
WebhookReceive(signature, items) ==
    /\ IF ~SKIP_HMAC_VALIDATION /\ CompareRaises(signature)
       THEN /\ payments' = payments
            /\ UNCHANGED <<threads, timers>>
            /\ Record("webhook", NoId, 500)
       ELSE IF ~SKIP_HMAC_VALIDATION /\ ~SignatureOk(signature)
       THEN /\ payments' = payments
            /\ UNCHANGED <<threads, timers>>
            /\ Record("webhook", NoId, 401)
       ELSE IF items = <<>>
       THEN /\ payments' = payments
            /\ UNCHANGED <<threads, timers>>
            /\ Record("webhook", NoId, 200)
       ELSE ProcessItem(0, items, TRUE)
    /\ UNCHANGED now

\* a later pass of the loop; the response follows the last one
WebhookItem(t) ==
    /\ threads[t].op = "webhook"
    /\ threads[t].pc = "items"
    /\ ProcessItem(t, threads[t].items, FALSE)
    /\ UNCHANGED now

\* the requests of the specification below: payloads of at most one item
SingleItemRequests == WebhookRequests(1)

\* -------------------------------------------------------------------- time
Elapse(left) == IF left > 0 THEN left - 1 ELSE 0

Tick ==
    /\ now' = IF now < MaxTime THEN now + 1 ELSE now
    /\ timers' = [k \in TimerSlots |-> [timers[k] EXCEPT !.left = Elapse(@)]]
    /\ lockLeft' = [l \in PaymentIds |-> Elapse(lockLeft[l])]
    /\ last' = [op |-> "tick", id |-> NoId, old |-> "none", new |-> "none", code |-> 0,
                session |-> <<>>, item |-> NoItem, body |-> NoBody]
    /\ UNCHANGED <<payments, threads>>

\* Requests whose webhook payloads carry at most one item: every store call of
\* a longer payload is the store call of some one-item payload.
Next ==
    \/ \E p \in Prices, c \in Currencies, r \in Refs, k \in Countries, h \in ExpiresHours :
          AdminCreate(p, c, r, k, h, CoreLinks)
    \/ \E id \in ReqIds : CheckoutRead(id)
    \/ \E t \in Threads, s \in Suffixes, created \in BOOLEAN : CheckoutSession(t, s, created)
    \/ \E id \in ReqIds : ResultRead(id)
    \/ \E t \in Threads : ResultLock(t)
    \/ \E t \in Threads : ResultArm(t)
    \/ \E id \in ReqIds : MarkRead(id)
    \/ \E t \in Threads : MarkLock(t)
    \/ \E t \in Threads : MarkArm(t)
    \/ \E id \in ReqIds : StatusApi(id)
    \/ \E k \in TimerSlots : TimerRead(k)
    \/ \E k \in TimerSlots : TimerWrite(k)
    \/ \E rq \in SingleItemRequests : WebhookReceive(rq.signature, rq.items)
    \/ Tick

Spec == Init /\ [][Next]_vars

\* The store with up to MaxLinks links at one instant: creation, the redirect
\* return and webhooks, whose references may name one link or another.
NextLinks ==
    \/ \E p \in Prices, c \in Currencies, r \in Refs, k \in Countries, h \in ExpiresHours :
          AdminCreate(p, c, r, k, h, MaxLinks)
    \/ \E id \in ReqIds : ResultRead(id)
    \/ \E t \in Threads : ResultLock(t)
    \/ \E t \in Threads : ResultArm(t)
    \/ \E id \in ReqIds : StatusApi(id)
    \/ \E rq \in SingleItemRequests : WebhookReceive(rq.signature, rq.items)

SpecLinks == Init /\ [][NextLinks]_vars

\* Webhook payloads of up to MaxItems items, applied one store call at a time
\* while other requests go on.  The items carry the references of sessions;
\* an item with another event code is the same whatever its success field
\* says; the header is the computed signature or is missing.
BatchItems ==
    {item \in Items :
        /\ \E r \in Refs, sfx \in Suffixes : item.merchantReference = SessionReference(r, sfx)
        /\ item.eventCode # "AUTHORISATION" => item.success = "true"}

BatchPayloads == SeqsUpTo(BatchItems, MaxItems)

BatchRequests ==
    {rq \in [signature : {"computed", ""}, items : BatchPayloads] :
        rq \in WebhookRequests(Len(rq.items))}

NextBatch ==
    \/ \E p \in Prices, c \in Currencies, r \in Refs, k \in Countries, h \in ExpiresHours :
          AdminCreate(p, c, r, k, h, MaxLinks)
    \/ \E rq \in BatchRequests : WebhookReceive(rq.signature, rq.items)
    \/ \E t \in Threads : WebhookItem(t)

SpecBatch == Init /\ [][NextBatch]_vars

\* The lock and its release: creation, the two locking handlers, webhooks,
\* timers and time.  A handler that has started runs to its end, time passes,
\* and a timer whose interval has run out fires: threading.Timer threads and
\* request threads are scheduled by the interpreter and nothing in the code
\* makes them wait for one another.
NextLive ==
    \/ \E p \in Prices, c \in Currencies, r \in Refs, k \in Countries, h \in ExpiresHours :
          AdminCreate(p, c, r, k, h, CoreLinks)
    \/ \E id \in ReqIds : ResultRead(id)
    \/ \E t \in Threads : ResultLock(t)
    \/ \E t \in Threads : ResultArm(t)
    \/ \E id \in ReqIds : MarkRead(id)
    \/ \E t \in Threads : MarkLock(t)
    \/ \E t \in Threads : MarkArm(t)
    \/ \E k \in TimerSlots : TimerRead(k)
    \/ \E k \in TimerSlots : TimerWrite(k)
    \/ \E rq \in SingleItemRequests : WebhookReceive(rq.signature, rq.items)
    \/ Tick

Fairness ==
    /\ WF_vars(Tick)
    /\ \A k \in TimerSlots : WF_vars(TimerRead(k)) /\ WF_vars(TimerWrite(k))
    /\ \A t \in Threads :
          /\ WF_vars(ResultLock(t)) /\ WF_vars(ResultArm(t))
          /\ WF_vars(MarkLock(t)) /\ WF_vars(MarkArm(t))

SpecLive == Init /\ [][NextLive]_vars /\ Fairness

\* ------------------------------------------------------- reading a step
Status(l) == payments[l].status

StatusAfter(l) == payments'[l].status

Changed(l) == StatusAfter(l) # Status(l)

Stepped(t) == threads'[t] # threads[t]

\* the step applies a webhook notification item
WebhookStep == last'.op = "webhook_item"

\* the step applies an AUTHORISATION item whose recovered reference is that of l
AuthorisationFor(l, success) ==
    /\ WebhookStep
    /\ last'.item.eventCode = "AUTHORISATION"
    /\ IsSuccess(last'.item) = success
    /\ OriginalReference(last'.item.merchantReference) = payments[l].reference

\* the step is a checkout visit reading the row of l
CheckoutVisit(l) == last'.op \in {"checkout", "checkout_read"} /\ last'.id = l

\* the step is the provider call of thread t, and it creates a session
SessionCreated(t) ==
    /\ threads[t].op = "checkout"
    /\ Stepped(t)
    /\ last'.op = "checkout_session"
    /\ last'.code = 200

\* the step is the firing (read or write) of timer k
TimerStep(k) == timers[k].pc # "none" /\ timers'[k].pc # timers[k].pc

\* the step arms a timer for link l
TimerArmed(l) ==
    \E k \in TimerSlots : timers[k].pc = "none" /\ timers'[k].pc = "armed" /\ timers'[k].id = l

\* ------------------------------------------------------------------ C1
\* C1: once a link's stored status is paid, no step changes it.
C1_PaidIsTerminal ==
    [][\A l \in Stored : Status(l) = "paid" => StatusAfter(l) = "paid"]_vars

\* ------------------------------------------------------------------ C2
AllowedEdges == {<<"pending", "processing">>, <<"processing", "pending">>,
                 <<"processing", "paid">>}

\* C2 as stated: every change of a stored status is one of the three edges
\* pending->processing, processing->pending, processing->paid.
C2_OnlyThreeEdges ==
    [][\A l \in Stored : Changed(l) => <<Status(l), StatusAfter(l)>> \in AllowedEdges]_vars

\* C2 as amended: every change of a stored status is the write of a redirect
\* return or /mark-processing that read pending (to processing), of a timer
\* that read processing (to pending), or of a webhook AUTHORISATION item for
\* the link's reference (to paid on success, to pending on failure); the
\* status that is overwritten may be any.
C2_ChangesByOperation ==
    [][\A l \in Stored : Changed(l) =>
          \/ /\ StatusAfter(l) = "processing"
             /\ \E t \in Threads :
                   /\ threads[t].op \in {"result", "mark"}
                   /\ threads[t].pc = "lock"
                   /\ threads[t].id = l
                   /\ threads[t].status = "pending"
                   /\ Stepped(t)
          \/ /\ StatusAfter(l) = "pending"
             /\ \E k \in TimerSlots :
                   timers[k].pc = "write" /\ timers[k].id = l /\ TimerStep(k)
          \/ /\ StatusAfter(l) = "paid"
             /\ AuthorisationFor(l, TRUE)
          \/ /\ StatusAfter(l) = "pending"
             /\ AuthorisationFor(l, FALSE)]_vars

\* a webhook has moved a link from pending straight to paid
C2_Witness ==
    last.op = "webhook_item" /\ last.id # NoId /\ last.old = "pending" /\ last.new = "paid"

\* ------------------------------------------------------------------ C3
\* C3: a stored status becomes paid only in a step that applies a webhook
\* AUTHORISATION item with success=true whose recovered reference is the
\* link's reference.
C3_PaidOnlyByWebhook ==
    [][\A l \in Stored :
          (StatusAfter(l) = "paid" /\ Status(l) # "paid") => AuthorisationFor(l, TRUE)]_vars

C3_Witness ==
    /\ last.op = "webhook_item"
    /\ last.id \in Stored
    /\ last.old = "processing"
    /\ Status(last.id) = "paid"

\* ------------------------------------------------------------------ C4
\* C4: a webhook AUTHORISATION success that carries the session reference
\* minted for a stored link, r + "_" + s, sets that link to paid and changes
\* no other link.
C4_RoundTrip ==
    [][\A l \in Stored, s \in Suffixes :
          ( /\ WebhookStep
            /\ last'.item.eventCode = "AUTHORISATION"
            /\ IsSuccess(last'.item)
            /\ last'.item.merchantReference = SessionReference(payments[l].reference, s) )
          => /\ StatusAfter(l) = "paid"
             /\ \A m \in Stored \ {l} : ~Changed(m)]_vars

\* ------------------------------------------------------------------ C5
\* the last step applied an AUTHORISATION item with success=false whose
\* recovered reference is that of l
FailureApplied(l) ==
    /\ last.op = "webhook_item"
    /\ last.item.eventCode = "AUTHORISATION"
    /\ ~IsSuccess(last.item)
    /\ OriginalReference(last.item.merchantReference) = payments[l].reference

\* C5: right after a webhook AUTHORISATION failure for a link's reference the
\* link is pending, and while now is before expiresAt a checkout visit passes
\* its checks and goes on to create a session.
C5_FailureReleases ==
    \A l \in Stored :
        FailureApplied(l) =>
            /\ Status(l) = "pending"
            /\ now < payments[l].expires_at =>
                  CheckoutDecision(Status(l), now, payments[l].expires_at) = "session"

C5_Witness ==
    \E l \in Stored :
        /\ FailureApplied(l)
        /\ last.old \in {"paid", "processing"}
        /\ now < payments[l].expires_at

\* ------------------------------------------------------------------ C6
\* C6 as stated: a checkout visit whose session creation succeeds leaves the
\* link in processing and has armed a timer for it.
C6_CheckoutLocks ==
    [][\A t \in Threads :
          SessionCreated(t) =>
              StatusAfter(threads[t].id) = "processing" /\ TimerArmed(threads[t].id)]_vars

\* C6 as amended: a checkout visit, whether or not its session creation
\* succeeds, writes no status and arms no timer.
C6_CheckoutDoesNotLock ==
    [][(last'.op \in {"checkout", "checkout_read", "checkout_session"})
          => payments' = payments /\ timers' = timers]_vars

C6_Witness ==
    /\ last.op = "checkout_session"
    /\ last.code = 200
    /\ last.new = "pending"
    /\ \A k \in TimerSlots : timers[k].pc = "none"

\* ------------------------------------------------------------------ C7
\* C7 as stated: no session is created at a moment when the link's stored
\* status is processing.
C7_NoSessionWhileProcessing ==
    [][\A t \in Threads : SessionCreated(t) => Status(threads[t].id) # "processing"]_vars

\* C7 as amended: a checkout visit that reads processing creates no session
\* (it answers without going on to the provider), and every session is created
\* by a visit that read pending.
C7_NoSessionAfterReadingProcessing ==
    [][/\ \A l \in Stored :
             (CheckoutVisit(l) /\ Status(l) = "processing")
                 => last'.op = "checkout" /\ threads' = threads
       /\ \A t \in Threads : SessionCreated(t) => threads[t].status = "pending"]_vars

C7_Witness ==
    last.op = "checkout" /\ last.code = 200 /\ last.old = "processing"

\* ------------------------------------------------------------------ C8
\* the visit is rejected: a 403, no thread goes on to the provider, the store
\* is as before
Rejected == last'.op = "checkout" /\ last'.code = 403 /\ threads' = threads /\ payments' = payments

\* C8 as stated: a visit goes on to create a session only if it reads pending
\* and now < expiresAt; it is rejected when it reads paid or now >= expiresAt.
C8_StrictExpiry ==
    [][\A l \in Stored : CheckoutVisit(l) =>
          /\ last'.op = "checkout_read" => Status(l) = "pending" /\ now < payments[l].expires_at
          /\ (Status(l) = "paid" \/ now >= payments[l].expires_at) => Rejected]_vars

\* C8 as amended: the same with the instant expiresAt itself still usable: a
\* session only if pending and now <= expiresAt, and a visit when
\* now = expiresAt to a pending link does go on to create one; rejected when
\* paid or now > expiresAt.
C8_Expiry ==
    [][\A l \in Stored : CheckoutVisit(l) =>
          /\ last'.op = "checkout_read" => Status(l) = "pending" /\ now <= payments[l].expires_at
          /\ (Status(l) = "paid" \/ now > payments[l].expires_at) => Rejected
          /\ (Status(l) = "pending" /\ now = payments[l].expires_at)
                 => last'.op = "checkout_read"]_vars

C8_Witness ==
    /\ last.op = "checkout_read"
    /\ last.id \in Stored
    /\ now = payments[last.id].expires_at

\* ------------------------------------------------------------------ C9
\* C9: a link that entered processing leaves it, other than by a webhook, only
\* when PROCESSING_LOCK_SECONDS have passed since it entered.
C9_LockLastsItsDuration ==
    [][\A l \in Stored :
          (Status(l) = "processing" /\ StatusAfter(l) # "processing" /\ ~WebhookStep)
              => lockLeft[l] = 0]_vars

\* ------------------------------------------------------------------ C10
\* C10: the firing of a timer that was armed and still waiting when a webhook
\* resolved its link changes nothing in the store.
C10_ResolvedTimerIsHarmless ==
    [][\A k \in TimerSlots : (TimerStep(k) /\ timers[k].resolved) => payments' = payments]_vars

\* ------------------------------------------------------------------ C11
\* the requests to POST /admin
AdminRequests ==
    [price : Prices, currency : Currencies, reference : Refs, country : Countries,
     expires_hours : ExpiresHours]

\* the step is the handling of admin request rq
AdminStep(rq) ==
    AdminCreate(rq.price, rq.currency, rq.reference, rq.country, rq.expires_hours, MaxLinks)

ReferenceStored(reference) == \E l \in Stored : payments[l].reference = reference

\* C11: no two stored links share a reference (ids are the keys of the
\* store), and an admin create whose reference is already stored is answered
\* 400, adds no link and leaves every stored link as it was.
C11_UniqueReference ==
    /\ [](\A l, m \in Stored : payments[l].reference = payments[m].reference => l = m)
    /\ [][\A rq \in AdminRequests :
             (ReferenceStored(rq.reference) /\ AdminStep(rq))
                 => last'.code = 400 /\ payments' = payments]_vars

\* a create was refused while two links are stored, the first of them locked
C11_Witness ==
    /\ last.op = "admin"
    /\ last.code = 400
    /\ Cardinality(Stored) = MaxLinks
    /\ \E l \in Stored : Status(l) = "processing"

\* ------------------------------------------------------------------ C12
\* C12: the step of a checkout visit in which the provider call raises answers
\* with an error (500), writes nothing to the store (a pending link stays
\* pending) and arms no timer.
C12_SessionFailureChangesNothing ==
    [][\A t \in Threads, s \in Suffixes :
          CheckoutSession(t, s, FALSE)
              => /\ last'.code = 500
                 /\ payments' = payments
                 /\ timers' = timers
                 /\ Status(threads[t].id) = "pending" => StatusAfter(threads[t].id) = "pending"]_vars

\* the provider call of a visit to a pending link has failed
C12_Witness ==
    /\ last.op = "checkout_session"
    /\ last.code = 500
    /\ last.id \in Stored
    /\ last.old = "pending"
    /\ Status(last.id) = "pending"

\* ------------------------------------------------------------------ C13
\* the timers that the step starts
TimersStarted == {k \in TimerSlots : timers[k].pc = "none" /\ timers'[k].pc = "armed"}

\* the step leaves the store, the timers and the threads as they were
NothingDone == payments' = payments /\ timers' = timers /\ threads' = threads

\* thread t, having read pending for a link, writes processing for it and
\* nothing else
LocksItsLink(t) ==
    /\ payments' = UpdateStatusById(payments, threads[t].id, "processing")
    /\ StatusAfter(threads[t].id) = "processing"
    /\ timers' = timers
    /\ threads'[t].pc = "arm"

\* thread t starts exactly one timer, for its link and with the whole
\* interval to run, and answers
ArmsOneTimer(t) ==
    /\ payments' = payments
    /\ Cardinality(TimersStarted) = 1
    /\ \A k \in TimerSlots :
          IF k \in TimersStarted
          THEN timers'[k].id = threads[t].id /\ timers'[k].left = PROCESSING_LOCK_SECONDS
          ELSE timers'[k] = timers[k]
    /\ threads'[t] = Idle
    /\ last'.code = 200

\* C13: a redirect return for a stored link that reads pending writes
\* processing and then arms exactly one timer; one that reads processing or
\* paid writes nothing and arms no timer; now and expires_at play no part.
C13_ResultLocksPendingOnly ==
    [][/\ \A l \in Stored :
             ResultRead(l) =>
                 IF Status(l) = "pending"
                 THEN /\ payments' = payments /\ timers' = timers
                      /\ \E t \in Threads :
                            /\ threads[t] = Idle
                            /\ threads'[t].op = "result" /\ threads'[t].pc = "lock"
                            /\ threads'[t].id = l
                 ELSE NothingDone /\ last'.code = 200
       /\ \A t \in Threads : ResultLock(t) => LocksItsLink(t)
       /\ \A t \in Threads : ResultArm(t) => ArmsOneTimer(t)]_vars

\* a redirect return has locked a link after its expiry
C13_Witness ==
    /\ last.op = "result"
    /\ last.id \in Stored
    /\ last.new = "processing"
    /\ now > payments[last.id].expires_at
    /\ \E k \in TimerSlots :
          /\ timers[k].pc = "armed"
          /\ timers[k].id = last.id
          /\ timers[k].left = PROCESSING_LOCK_SECONDS

\* ------------------------------------------------------------------ C14
\* C14: with HMAC validation on, a webhook request whose signature header is
\* missing or is not the computed value is answered 401 and changes no link.
C14_BadSignatureIs401 ==
    [][\A rq \in SingleItemRequests :
          (~SKIP_HMAC_VALIDATION /\ ~SignatureOk(rq.signature)
             /\ WebhookReceive(rq.signature, rq.items))
              => last'.code = 401 /\ payments' = payments]_vars

\* ------------------------------------------------------------------ C15
\* C15: /status changes no link, no timer and no thread; for an id that is
\* not stored it answers 404, for a stored one 200 with exactly the id, the
\* reference and the status now in the store.
C15_StatusIsPureRead ==
    [][\A id \in ReqIds :
          StatusApi(id) =>
              /\ NothingDone
              /\ (id # NoId /\ id \notin Stored) => last'.code = 404
              /\ id \in Stored =>
                    /\ last'.code = 200
                    /\ last'.body = [paymentId |-> id, reference |-> payments[id].reference,
                                     status |-> payments'[id].status, error |-> ""]]_vars

\* /status has reported a link as processing while a timer waits for it
C15_Witness ==
    /\ last.op = "status"
    /\ last.code = 200
    /\ last.body.status = "processing"
    /\ \E k \in TimerSlots : timers[k].pc = "armed" /\ timers[k].id = last.id

\* ------------------------------------------------------------------ C16
StatusValues == {"pending", "processing", "paid"}

\* C16: every step keeps every stored link, with its amount, currency,
\* reference, country and expires_at; the status it leaves is one of pending,
\* processing, paid; a link the step adds is pending.
C16_OnlyStatusChanges ==
    [][/\ \A l \in Stored :
             /\ l \in DOMAIN payments'
             /\ payments'[l] = [payments[l] EXCEPT !.status = payments'[l].status]
             /\ payments'[l].status \in StatusValues
       /\ \A l \in DOMAIN payments' \ Stored : payments'[l].status = "pending"]_vars

\* a link that was locked and then paid is still stored as created,
\* and a further create has just been refused
C16_Witness ==
    /\ last.op = "admin"
    /\ last.code = 400
    /\ \E l \in Stored :
          /\ Status(l) = "paid"
          /\ payments[l].amount = PriceMinor(10)
          /\ \E k \in TimerSlots : timers[k].id = l /\ timers[k].resolved

\* ------------------------------------------------------------------ C17
\* C17: with timers that fire and handlers that finish, a link that is
\* processing is later pending again, or a webhook has been applied to it:
\* no link stays processing for ever.
C17_ProcessingEnds ==
    \A l \in PaymentIds :
        (l \in Stored /\ Status(l) = "processing")
            ~> (l \in Stored
                /\ (Status(l) = "pending" \/ (last.op = "webhook_item" /\ last.id = l)))

\* a timer has taken a link from processing back to pending
C17_Witness ==
    /\ last.op = "timer_write"
    /\ last.id \in Stored
    /\ last.old = "processing"
    /\ Status(last.id) = "pending"

\* ------------------------------------------------------------------ C18
\* C18: /mark-processing for a stored link that reads pending writes
\* processing, arms exactly one timer and reports 'processing'; one that reads
\* processing or paid writes nothing, arms nothing and reports the status it
\* read; for an id that is not stored it answers 404 and changes nothing.
C18_MarkProcessingLikeResult ==
    [][/\ \A id \in ReqIds :
             MarkRead(id) =>
                 IF id = NoId THEN NothingDone /\ last'.code = 400
                 ELSE IF id \notin Stored THEN NothingDone /\ last'.code = 404
                 ELSE IF Status(id) = "pending"
                 THEN /\ payments' = payments /\ timers' = timers
                      /\ \E t \in Threads :
                            /\ threads[t] = Idle
                            /\ threads'[t].op = "mark" /\ threads'[t].pc = "lock"
                            /\ threads'[t].id = id
                 ELSE NothingDone /\ last'.code = 200 /\ last'.body.status = Status(id)
       /\ \A t \in Threads : MarkLock(t) => LocksItsLink(t)
       /\ \A t \in Threads :
             MarkArm(t) => ArmsOneTimer(t) /\ last'.body.status = "processing"]_vars

\* /mark-processing has reported paid for a paid link
C18_Witness ==
    /\ last.op = "mark"
    /\ last.code = 200
    /\ last.id \in Stored
    /\ last.body.status = "paid"
    /\ Status(last.id) = "paid"

\* ------------------------------------------------------------------ C19
\* a timer for l is armed and has not read the status yet
TimerWaiting(l) == \E k \in TimerSlots : timers[k].pc = "armed" /\ timers[k].id = l

\* a handler has written processing for l and is about to arm its timer
AboutToArm(l) == \E t \in Threads : threads[t].pc = "arm" /\ threads[t].id = l

\* a timer for l has read processing and is about to write pending
AboutToUnlock(l) == \E k \in TimerSlots : timers[k].pc = "write" /\ timers[k].id = l

\* C19 as stated: whenever a link is processing, a timer for it is armed and
\* has not read yet, or a handler that wrote processing is about to arm one.
C19_TimerCoverage ==
    \A l \in Stored : Status(l) = "processing" => TimerWaiting(l) \/ AboutToArm(l)

\* C19 as amended: whenever a link is processing, a timer for it is armed and
\* has not read yet, or a handler that wrote processing is about to arm one,
\* or a timer that has read processing is about to write pending.
C19_TimerCoverageOrUnlocking ==
    \A l \in Stored :
        Status(l) = "processing" => TimerWaiting(l) \/ AboutToArm(l) \/ AboutToUnlock(l)

\* a link is processing and all that is left for it is a timer between its
\* read and its write
C19_Witness ==
    \E l \in Stored :
        /\ Status(l) = "processing"
        /\ ~TimerWaiting(l)
        /\ ~AboutToArm(l)
        /\ AboutToUnlock(l)

\* ------------------------------------------------------------------ C20
\* the step applies item and nothing else: a link changes only if the item is
\* an AUTHORISATION whose recovered reference is the link's, and then takes the
\* status of the item; no link is added or removed
Applies(item) ==
    /\ last'.item = item
    /\ DOMAIN payments' = Stored
    /\ \A l \in Stored :
          IF /\ item.eventCode = "AUTHORISATION"
             /\ OriginalReference(item.merchantReference) = payments[l].reference
          THEN payments'[l] = [payments[l] EXCEPT
                                  !.status = IF IsSuccess(item) THEN "paid" ELSE "pending"]
          ELSE payments'[l] = payments[l]

\* thread t is left with exactly rest to apply, in that order
Leaves(t, rest) ==
    /\ threads'[t].op = "webhook"
    /\ threads'[t].pc = "items"
    /\ threads'[t].items = rest
    /\ \A u \in Threads \ {t} : threads'[u] = threads[u]

\* the position of the last AUTHORISATION item of items whose recovered
\* reference is reference, 0 when there is none
LastAuthorisationFor(items, reference) ==
    LET hits == {i \in 1..Len(items) :
                    /\ items[i].eventCode = "AUTHORISATION"
                    /\ OriginalReference(items[i].merchantReference) = reference}
    IN  IF hits = {} THEN 0 ELSE CHOOSE i \in hits : \A j \in hits : j <= i

\* thread t applies the second item of a request whose first item was applied
\* in the step before, no other request being under way
SecondOfTwo(t) ==
    /\ WebhookItem(t)
    /\ last.op = "webhook_item"
    /\ last.code = 0
    /\ \A u \in Threads \ {t} : threads[u] = Idle

\* C20: each item of a verified request is applied in list order, one per
\* step; an item changes a link only if it is an AUTHORISATION whose recovered
\* reference is that link's; the request is answered 200 after its last item;
\* after a request applied without interruption each link named by one of its
\* AUTHORISATION items has the status of the last such item.
C20_ItemsInOrder ==
    [][/\ \A items \in BatchPayloads \ {<<>>} :
             WebhookReceive("computed", items)
                 => /\ Applies(items[1])
                    /\ IF Tail(items) = <<>>
                       THEN last'.code = 200 /\ threads' = threads
                       ELSE \E t \in Threads : threads[t] = Idle /\ Leaves(t, Tail(items))
       /\ \A t \in Threads :
             WebhookItem(t) =>
                 /\ Applies(Head(threads[t].items))
                 /\ IF Tail(threads[t].items) = <<>>
                    THEN last'.code = 200 /\ threads' = [threads EXCEPT ![t] = Idle]
                    ELSE Leaves(t, Tail(threads[t].items))
       /\ \A t \in Threads :
             SecondOfTwo(t) =>
                 LET whole == <<last.item>> \o threads[t].items
                 IN  \A l \in Stored :
                        LET i == LastAuthorisationFor(whole, payments[l].reference)
                        IN  i # 0 => StatusAfter(l) = NotificationStatus(whole[i])]_vars

\* of a request of two items for one link, success then failure, the first
\* has been applied, with another link stored: the link is paid for now
C20_Witness ==
    /\ last.op = "webhook_item"
    /\ last.code = 0
    /\ last.item.eventCode = "AUTHORISATION"
    /\ IsSuccess(last.item)
    /\ last.id \in Stored
    /\ Status(last.id) = "paid"
    /\ Cardinality(Stored) = MaxLinks
    /\ \E t \in Threads :
          /\ threads[t].pc = "items"
          /\ Len(threads[t].items) = 1
          /\ threads[t].items[1].eventCode = "AUTHORISATION"
          /\ ~IsSuccess(threads[t].items[1])
          /\ OriginalReference(threads[t].items[1].merchantReference)
                = payments[last.id].reference
          /\ \A u \in Threads \ {t} : threads[u] = Idle

====
